---- MODULE Spec2Model ----
(***************************************************************************)
(* Model of oemof.solph._plumbing: the function sequence() and the class   *)
(* _Sequence (an emulated list with a default value or periodic values).   *)
(*                                                                         *)
(* Python objects are records carrying their type in the field "type".     *)
(* A call that raises is a result whose field exc names the exception; a   *)
(* call that returns has exc = "none" and the returned object in val.      *)
(***************************************************************************)
EXTENDS Integers, Sequences, FiniteSets, TLC

(* ------------------------------ bounds --------------------------------- *)
\* greatest index passed to __getitem__
MaxKey == 10
\* most negative index passed to __getitem__ is -MaxNegKey
MaxNegKey == 4
\* greatest "len" entry of a pattern mapping
MaxLen == 10
\* most negative "len" entry of a pattern mapping is -MaxNegLen
MaxNegLen == 3
\* greatest number of "values" of a pattern mapping / items of a list
MaxPat == 3
\* pattern values and list items are the integers 0..MaxVal
MaxVal == 2
\* greatest index a thread reads in the threaded specification
MaxThreadKey == 2

(* --------------------------- Python objects ---------------------------- *)
None == [type |-> "NoneType"]
PyInt(n) == [type |-> "int", val |-> n]
PyStr(s) == [type |-> "str", val |-> s]
PyList(items) == [type |-> "list", items |-> items]
PyTuple(items) == [type |-> "tuple", items |-> items]
PyDict(len, values) == [type |-> "dict", len |-> len, values |-> values]

\* a call that returned obj / a call that raised exc
Return(obj) == [exc |-> "none", val |-> obj]
Raise(exc) == [exc |-> exc, val |-> None]

\* all tuples over S of length 0..n
RECURSIVE SeqsUpTo(_, _)
SeqsUpTo(S, n) ==
  IF n = 0 THEN {<<>>}
  ELSE LET shorter == SeqsUpTo(S, n - 1)
       IN shorter \cup {Append(s, v) : s \in {t \in shorter : Len(t) = n - 1}, v \in S}

Items == {PyInt(n) : n \in 0..MaxVal}
Scalars == {None, PyInt(0), PyInt(10), PyStr(""), PyStr("ab")}
Collections ==
  {PyList(s) : s \in SeqsUpTo(Items, MaxPat)}
    \cup {PyTuple(s) : s \in SeqsUpTo(Items, MaxPat)}
\* every mapping carries both keys, "len" and "values"
Mappings ==
  {PyDict(l, PyList(s)) : l \in (-MaxNegLen)..MaxLen, s \in SeqsUpTo(Items, MaxPat)}
\* the arguments sequence() is called with
Inputs == Scalars \cup Collections \cup Mappings
\* the keyword arguments _Sequence() is called with directly; the periodic
\* values are the lists [], [0], [0, 1], ... of every length
CtorArgs ==
  {[type |-> "kwargs", default |-> d, periodic_values |-> p, highest_index |-> h] :
     d \in {None, PyInt(10)},
     p \in {None} \cup {PyList([i \in 1..n |-> PyInt(i - 1)]) : n \in 0..MaxPat},
     h \in (-MaxNegLen)..MaxLen}
Keys == (-MaxNegKey)..MaxKey
\* the threads that read one instance: "t1" is the thread that made it
Threads == {"t1", "t2"}
ThreadKeys == 0..MaxThreadKey

(* -------------------------- Python arithmetic -------------------------- *)
\* a // b : floor division, b # 0
PyFloorDiv(a, b) == IF b > 0 THEN a \div b ELSE (-a) \div (-b)
\* a % b : the remainder has the sign of b, b # 0
PyMod(a, b) == a - b * PyFloorDiv(a, b)
\* int(a / b) : true division truncated toward zero, b > 0 (exact for the
\* small integers used here, where the float quotient loses no digit)
PyIntTrueDiv(a, b) == IF a >= 0 THEN a \div b ELSE -((-a) \div b)
PyMax(a, b) == IF a >= b THEN a ELSE b

\* bool(x) of a list or None, as in "if self.periodic_values"
Truthy(x) == x.type \in {"list", "tuple"} /\ Len(x.items) > 0

\* list[i] : negative i counts from the end, out of range raises IndexError
PyListGetitem(l, i) ==
  LET n == Len(l.items)
  IN IF i >= 0 /\ i < n THEN Return(l.items[i + 1])
     ELSE IF i < 0 /\ i >= -n THEN Return(l.items[n + i + 1])
     ELSE Raise("IndexError")

\* isinstance(x, abc.Iterable) that does not hold of a _Sequence
IsIterable_NoSequence(x) == x.type \in {"list", "tuple", "dict", "str"}

\* isinstance(x, abc.Iterable), isinstance(x, str), isinstance(x, abc.MutableMapping)
IsIterable(x) == x.type \in {"list", "tuple", "dict", "str", "_Sequence"}
IsStr(x) == x.type = "str"
IsMutableMapping(x) == x.type = "dict"

(* ------------------------------ _Sequence ------------------------------ *)
\* _Sequence(default=..., periodic_values=..., highest_index=...): a new
\* object; its id is 0 until the caller's step gives it its identity
_Sequence__init__(default, periodic_values, highest_index) ==
  IF default # None /\ periodic_values # None
  THEN Raise("ValueError")
  ELSE Return([type |-> "_Sequence",
               id |-> 0,
               default |-> default,
               periodic_values |-> periodic_values,
               default_changed |-> FALSE,
               highest_index |-> highest_index,
               period_length |->
                 IF Truthy(periodic_values)
                 THEN PyInt(PyIntTrueDiv(highest_index, Len(periodic_values.items)))
                 ELSE None,
               data |-> <<>>])

\* _get_period_ with the remainder taken instead of the quotient
_get_period_Mod(self, key) ==
  IF self.period_length.val = 0 THEN Raise("ZeroDivisionError")
  ELSE Return(PyInt(PyMod(key, self.period_length.val)))

\* self._get_period_(key): key // self.period_length
_get_period_(self, key) ==
  IF self.period_length.val = 0 THEN Raise("ZeroDivisionError")
  ELSE Return(PyInt(PyFloorDiv(key, self.period_length.val)))

\* __getitem__ storing the key read last instead of the largest one
__getitem__NoMax(self, key) ==
  IF Truthy(self.periodic_values)
  THEN LET period == _get_period_(self, key)
       IN [self |-> self,
           res |-> IF period.exc # "none" THEN period
                   ELSE PyListGetitem(self.periodic_values, period.val.val)]
  ELSE [self |-> [self EXCEPT !.highest_index = key],
        res |-> Return(self.default)]

\* __getitem__ setting default_changed when the default is handed out
__getitem__MarkChanged(self, key) ==
  IF Truthy(self.periodic_values)
  THEN LET period == _get_period_(self, key)
       IN [self |-> self,
           res |-> IF period.exc # "none" THEN period
                   ELSE PyListGetitem(self.periodic_values, period.val.val)]
  ELSE [self |-> [self EXCEPT !.highest_index = PyMax(self.highest_index, key),
                              !.default_changed = TRUE],
        res |-> Return(self.default)]

\* __getitem__ storing key + 1, the length, as the highest index
__getitem__PlusOne(self, key) ==
  IF Truthy(self.periodic_values)
  THEN LET period == _get_period_(self, key)
       IN [self |-> self,
           res |-> IF period.exc # "none" THEN period
                   ELSE PyListGetitem(self.periodic_values, period.val.val)]
  ELSE [self |-> [self EXCEPT !.highest_index = PyMax(self.highest_index, key + 1)],
        res |-> Return(self.default)]

\* self[key]: the new state of self and the result of the call
__getitem__(self, key) ==
  IF Truthy(self.periodic_values)
  THEN LET period == _get_period_(self, key)
       IN [self |-> self,
           res |-> IF period.exc # "none" THEN period
                   ELSE PyListGetitem(self.periodic_values, period.val.val)]
  ELSE [self |-> [self EXCEPT !.highest_index = PyMax(self.highest_index, key)],
        res |-> Return(self.default)]

\* __len__ counting its own call as one more observed index
__len__Grow(self) ==
  [self |-> IF Truthy(self.periodic_values) THEN self
            ELSE [self EXCEPT !.highest_index = @ + 1],
   res |-> IF Truthy(self.periodic_values)
           THEN Return(PyInt(self.highest_index))
           ELSE Return(PyInt(PyMax(Len(self.data), self.highest_index + 1)))]

\* self.__len__()
__len__(self) ==
  [self |-> self,
   res |-> IF Truthy(self.periodic_values)
           THEN Return(PyInt(self.highest_index))
           ELSE Return(PyInt(PyMax(Len(self.data), self.highest_index + 1)))]

\* n copies of v
RECURSIVE Repeat(_, _)
Repeat(v, n) == IF n <= 0 THEN <<>> ELSE <<v>> \o Repeat(v, n - 1)

\* [value for value in values for _ in range(n)]
RECURSIVE RepeatEach(_, _)
RepeatEach(values, n) ==
  IF values = <<>> THEN <<>>
  ELSE Repeat(Head(values), n) \o RepeatEach(Tail(values), n)

\* __iter__ repeating the default highest_index times, one too few
__iter__OffByOne(self) ==
  [self |-> self,
   res |-> IF Truthy(self.periodic_values)
           THEN Return(PyList(RepeatEach(self.periodic_values.items,
                                         self.period_length.val)))
           ELSE Return(PyList(Repeat(self.default, self.highest_index)))]

\* the values one after the other, the whole pattern n times
RECURSIVE Cycle(_, _)
Cycle(values, n) == IF n <= 0 THEN <<>> ELSE values \o Cycle(values, n - 1)

\* __iter__ with the two loops of the comprehension swapped
__iter__Cycle(self) ==
  [self |-> self,
   res |-> IF Truthy(self.periodic_values)
           THEN Return(PyList(Cycle(self.periodic_values.items,
                                    self.period_length.val)))
           ELSE Return(PyList(Repeat(self.default, self.highest_index + 1)))]

\* list(iter(self)): the elements one pass over the iterator yields
__iter__(self) ==
  [self |-> self,
   res |-> IF Truthy(self.periodic_values)
           THEN Return(PyList(RepeatEach(self.periodic_values.items,
                                         self.period_length.val)))
           ELSE Return(PyList(Repeat(self.default, self.highest_index + 1)))]

(* ------------------------------ sequence ------------------------------- *)
\* sequence without the check that len is a multiple of the number of values
sequence_NoCheck(x) ==
  IF IsIterable(x) /\ ~IsStr(x)
  THEN IF IsMutableMapping(x)
       THEN IF Len(x.values.items) = 0 THEN Raise("ZeroDivisionError")
            ELSE _Sequence__init__(None, x.values, x.len)
       ELSE Return(x)
  ELSE _Sequence__init__(x, None, -1)

\* sequence wrapping an immutable iterable (a tuple) like a scalar
sequence_WrapTuple(x) ==
  IF IsIterable(x) /\ ~IsStr(x) /\ x.type # "tuple"
  THEN IF IsMutableMapping(x)
       THEN IF Len(x.values.items) = 0 THEN Raise("ZeroDivisionError")
            ELSE IF PyMod(x.len, Len(x.values.items)) # 0 THEN Raise("KeyError")
            ELSE _Sequence__init__(None, x.values, x.len)
       ELSE Return(x)
  ELSE _Sequence__init__(x, None, -1)

\* sequence without the exclusion of strings from the iterables
sequence_StrIsIterable(x) ==
  IF IsIterable(x)
  THEN IF IsMutableMapping(x)
       THEN IF Len(x.values.items) = 0 THEN Raise("ZeroDivisionError")
            ELSE IF PyMod(x.len, Len(x.values.items)) # 0 THEN Raise("KeyError")
            ELSE _Sequence__init__(None, x.values, x.len)
       ELSE Return(x)
  ELSE _Sequence__init__(x, None, -1)

\* sequence(iterable_or_scalar)
sequence(x) ==
  IF IsIterable(x) /\ ~IsStr(x)
  THEN IF IsMutableMapping(x)
       THEN IF Len(x.values.items) = 0 THEN Raise("ZeroDivisionError")
            ELSE IF PyMod(x.len, Len(x.values.items)) # 0 THEN Raise("KeyError")
            ELSE _Sequence__init__(None, x.values, x.len)
       ELSE Return(x)
  ELSE _Sequence__init__(x, None, -1)

(* ------------------------------- state --------------------------------- *)
VARIABLES
  arg,      \* the object sequence() is called with
  ret,      \* the outcome of sequence(arg); Pending before the call
  obj,      \* the object sequence() returned, in its current state
  last,     \* the latest call on obj: operation, key and result
  maxRead,  \* the largest non-negative key read from obj so far, else -1
  nextId,   \* the id the next constructed _Sequence gets
  thr,      \* per thread: its place in __getitem__, its key, the value it loaded
  hist      \* the threaded run so far: started, lenBefore, maxSince, overlap

tvars == <<thr, hist>>
vars == <<arg, ret, obj, last, maxRead, nextId, thr, hist>>

Pending == [exc |-> "pending", val |-> None]
NoCall == [op |-> "none", key |-> 0, res |-> Return(None)]

\* a thread outside __getitem__
Idle == [pc |-> "idle", key |-> 0, tmp |-> 0]

Init ==
  /\ arg \in Inputs \cup CtorArgs
  /\ ret = Pending
  /\ obj = None
  /\ last = NoCall
  /\ maxRead = -1
  /\ nextId = 1
  /\ thr = [t \in Threads |-> Idle]
  /\ hist = [started |-> FALSE, lenBefore |-> 0, maxSince |-> -1, overlap |-> FALSE]

\* the call res constructed a _Sequence (its result is not yet identified)
IsNew(res) == res.exc = "none" /\ res.val.type = "_Sequence" /\ res.val.id = 0
\* the object the call res evaluates to, a new one identified by id
Obj(res, id) == IF IsNew(res) THEN [res.val EXCEPT !.id = id] ELSE res.val
NextIdAfter(res, id) == IF IsNew(res) THEN id + 1 ELSE id

\* obj = sequence(arg)
Normalize ==
  /\ ret = Pending
  /\ arg \in Inputs
  /\ ret' = sequence(arg)
  /\ obj' = Obj(ret', nextId)
  /\ nextId' = NextIdAfter(ret', nextId)
  /\ UNCHANGED <<arg, last, maxRead, tvars>>

\* obj = _Sequence(default=..., periodic_values=..., highest_index=...)
Construct ==
  /\ ret = Pending
  /\ arg \in CtorArgs
  /\ ret' = _Sequence__init__(arg.default, arg.periodic_values, arg.highest_index)
  /\ obj' = Obj(ret', nextId)
  /\ nextId' = NextIdAfter(ret', nextId)
  /\ UNCHANGED <<arg, last, maxRead, tvars>>

IsLazy == ret.exc = "none" /\ obj.type = "_Sequence"

\* obj[key]
Read(key) ==
  /\ IsLazy
  /\ LET call == __getitem__(obj, key)
     IN /\ obj' = call.self
        /\ last' = [op |-> "getitem", key |-> key, res |-> call.res]
        /\ maxRead' = IF call.res.exc = "none" /\ key >= 0 /\ key > maxRead
                      THEN key ELSE maxRead
  /\ UNCHANGED <<arg, ret, nextId, tvars>>

\* obj.__len__()
Length ==
  /\ IsLazy
  /\ LET call == __len__(obj)
     IN /\ obj' = call.self
        /\ last' = [op |-> "len", key |-> 0, res |-> call.res]
  /\ UNCHANGED <<arg, ret, maxRead, nextId, tvars>>

\* [i for i in obj], as __repr__ does: one full pass over iter(obj)
Iterate ==
  /\ IsLazy
  /\ LET call == __iter__(obj)
     IN /\ obj' = call.self
        /\ last' = [op |-> "iter", key |-> 0, res |-> call.res]
  /\ UNCHANGED <<arg, ret, maxRead, nextId, tvars>>

\* obj = sequence(obj): the object goes through sequence() once more
Renormalize ==
  /\ ret.exc = "none"
  /\ LET call == sequence(obj)
     IN /\ obj' = Obj(call, nextId)
        /\ nextId' = NextIdAfter(call, nextId)
        /\ last' = [op |-> "sequence", key |-> 0,
                    res |-> IF call.exc = "none" THEN Return(obj') ELSE call]
  /\ UNCHANGED <<arg, ret, maxRead, tvars>>

\* sequence([i for i in obj]): obj is materialized and the list normalized
RoundTrip ==
  /\ IsLazy
  /\ LET it == __iter__(obj)
     IN /\ obj' = it.self
        /\ last' = [op |-> "roundtrip", key |-> 0, res |-> sequence(it.res.val)]
  /\ UNCHANGED <<arg, ret, maxRead, nextId, tvars>>

Next ==
  \/ Normalize
  \/ Construct
  \/ \E key \in Keys : Read(key)
  \/ Length
  \/ Iterate
  \/ Renormalize
  \/ RoundTrip

Spec == Init /\ [][Next]_vars

(* ------------------- unsynchronized concurrent reads -------------------- *)
(* The statement self.highest_index = max(self.highest_index, key) of      *)
(* __getitem__ is no atomic step: a thread loads the attribute, computes   *)
(* the maximum and stores it, and other threads run in between.            *)

\* the store with the key in place of the maximum
StoreHighest_NoMax(self, tmp, key) == [self EXCEPT !.highest_index = key]
\* the store one above the maximum
StoreHighest_PlusOne(self, tmp, key) ==
  [self EXCEPT !.highest_index = PyMax(tmp, key) + 1]

\* the load of self.highest_index
LoadHighest(self) == self.highest_index
\* the store self.highest_index = max(<loaded>, key)
StoreHighest(self, tmp, key) == [self EXCEPT !.highest_index = PyMax(tmp, key)]

AllIdle == \A t \in Threads : thr[t].pc = "idle"

InitThreads == Init /\ arg \in Scalars

\* the other threads start to read obj; until then only "t1" reads it
StartThreads ==
  /\ IsLazy
  /\ ~hist.started
  /\ AllIdle
  /\ hist' = [hist EXCEPT !.started = TRUE,
                          !.lenBefore = __len__(obj).res.val.val]
  /\ UNCHANGED <<arg, ret, obj, last, maxRead, nextId, thr>>

\* thread t enters obj[key] and loads self.highest_index
TLoad(t, key) ==
  /\ IsLazy
  /\ ~Truthy(obj.periodic_values)
  /\ hist.started \/ t = "t1"
  /\ thr[t].pc = "idle"
  /\ thr' = [thr EXCEPT ![t] = [pc |-> "store", key |-> key, tmp |-> LoadHighest(obj)]]
  /\ maxRead' = IF key > maxRead THEN key ELSE maxRead
  /\ hist' = [hist EXCEPT
               !.maxSince = IF hist.started /\ key > @ THEN key ELSE @,
               !.overlap = @ \/ \E u \in Threads \ {t} : thr[u].pc = "store"]
  /\ UNCHANGED <<arg, ret, obj, last, nextId>>

\* thread t stores the maximum and returns self.default
TStore(t) ==
  /\ thr[t].pc = "store"
  /\ obj' = StoreHighest(obj, thr[t].tmp, thr[t].key)
  /\ last' = [op |-> "getitem", key |-> thr[t].key, res |-> Return(obj.default)]
  /\ thr' = [thr EXCEPT ![t] = Idle]
  /\ UNCHANGED <<arg, ret, maxRead, nextId, hist>>

NextThreads ==
  \/ Normalize
  \/ StartThreads
  \/ \E t \in Threads, key \in ThreadKeys : TLoad(t, key)
  \/ \E t \in Threads : TStore(t)

SpecThreads == InitThreads /\ [][NextThreads]_vars

(* ------------------------------ properties ----------------------------- *)
\* sequence(arg) returned and arg was a scalar, a string or None
FromScalar == arg.type \in {"int", "str", "NoneType"} /\ ret.exc = "none"
\* sequence(arg) returned and arg was a pattern mapping
FromMapping == arg.type = "dict" /\ ret.exc = "none"
\* the value a call returned, as a number / as a tuple of elements
LenOf(call) == call.res.val.val
ItemsOf(call) == call.res.val.items

\* C1: on a sequence made from a scalar, the length is always 1 + the largest
\* index read so far (0 before any read), whatever the order of the reads and
\* whatever __len__ and __iter__ calls came between them.
C1_LengthIsMaxReadPlusOne ==
  FromScalar =>
    /\ obj.type = "_Sequence"
    /\ __len__(obj).res = Return(PyInt(maxRead + 1))
    /\ last.op = "len" => last.res = Return(PyInt(maxRead + 1))

\* C1 witness: index 2 is read after index 5 was.
C1_Witness ==
  FromScalar /\ last.op = "getitem" /\ last.key = 2 /\ maxRead = 5

\* C2: on a sequence made from {len: L, values: P}, L a positive multiple of
\* len(P), period_length is L / len(P) and every index i in 0..L-1 reads
\* P[i // period_length].
C2_PeriodicRead ==
  (FromMapping /\ arg.len > 0) =>
    LET P == arg.values.items
        L == arg.len
        w == L \div Len(P)
    IN /\ obj.type = "_Sequence"
       /\ w * Len(P) = L
       /\ obj.period_length = PyInt(w)
       /\ \A i \in 0..(L - 1) : __getitem__(obj, i).res = Return(P[(i \div w) + 1])
       /\ (last.op = "getitem" /\ last.key \in 0..(L - 1))
            => last.res = Return(P[(last.key \div w) + 1])

\* C2 witness: index 4 of {len: 9, values: [0, 1, 2]} reads 1.
C2_Witness ==
  /\ FromMapping
  /\ arg = PyDict(9, PyList(<<PyInt(0), PyInt(1), PyInt(2)>>))
  /\ last = [op |-> "getitem", key |-> 4, res |-> Return(PyInt(1))]

\* C3: on a sequence made from {len: L, values: P}, every iteration yields L
\* elements, each element of P repeated L / len(P) times, in order.
C3_IterateYieldsLElements ==
  (FromMapping /\ last.op = "iter") =>
    LET P == arg.values.items
        L == arg.len
        items == ItemsOf(last)
    IN /\ last.res.exc = "none"
       /\ Len(items) = L
       /\ \A i \in 1..L : items[i] = P[((i - 1) \div (L \div Len(P))) + 1]

\* C4: sequence() of a mapping whose len is not a multiple of the number of
\* values raises the validation error (KeyError) and returns no object.
C4_NonMultipleRejected ==
  (/\ arg.type = "dict"
   /\ ret # Pending
   /\ Len(arg.values.items) > 0
   /\ arg.len % Len(arg.values.items) # 0)
    => ret = Raise("KeyError") /\ obj = None

\* C4 witness: {len: 10, values: [0, 1, 2]} was rejected.
C4_Witness ==
  /\ arg = PyDict(10, PyList(<<PyInt(0), PyInt(1), PyInt(2)>>))
  /\ ret = Raise("KeyError")

C6_NegativeIndexRaises ==
  (last.op = "getitem" /\ last.key < 0) => last.res = Raise("IndexError")

\* C7: a read of a periodic sequence at an index at or beyond its total
\* length raises IndexError.
C7_ReadBeyondLengthRaises ==
  (FromMapping /\ last.op = "getitem" /\ last.key >= arg.len)
    => last.res = Raise("IndexError")

\* C8: on a sequence made from a scalar s, an iteration yields exactly
\* length() = highest_index + 1 copies of s; before any read it yields the
\* empty list and does not raise.
C8_BroadcastIterate ==
  FromScalar =>
    LET it == __iter__(obj)
    IN /\ it.res.exc = "none"
       /\ Len(ItemsOf(it)) = obj.highest_index + 1
       /\ Len(ItemsOf(it)) = LenOf(__len__(obj))
       /\ \A i \in 1..Len(ItemsOf(it)) : ItemsOf(it)[i] = arg
       /\ maxRead = -1 => ItemsOf(it) = <<>>
       /\ last.op = "iter" => last.res = it.res

\* C8 witness: an iteration after index 2 was read yields three elements.
C8_Witness ==
  FromScalar /\ last.op = "iter" /\ maxRead = 2 /\ Len(ItemsOf(last)) = 3

\* C9: on a sequence made from a scalar, a __len__ or __iter__ call leaves
\* the object, its length and its iteration as they were; a step that changes
\* the length is a read.
C9_ObserversReadOnly ==
  [][FromScalar =>
       /\ last'.op \in {"len", "iter"} =>
            /\ obj' = obj
            /\ __len__(obj').res = __len__(obj).res
            /\ __iter__(obj').res = __iter__(obj).res
       /\ __len__(obj').res # __len__(obj).res => last'.op = "getitem"]_vars

\* C9 witness: __len__ was called after index 3 was read.
C9_Witness ==
  FromScalar /\ last.op = "len" /\ maxRead = 3

\* C10: on a sequence made from a scalar, string or None s, every read at a
\* non-negative index returns s, whatever calls came before.
C10_BroadcastReadReturnsDefault ==
  (arg.type \in {"int", "str", "NoneType"} /\ ret # Pending) =>
    /\ ret.exc = "none"
    /\ obj.type = "_Sequence"
    /\ \A i \in 0..MaxKey : __getitem__(obj, i).res = Return(arg)
    /\ (last.op = "getitem" /\ last.key >= 0) => last.res = Return(arg)

\* C10 witness: index 3 of sequence("ab") is read after index 5 was.
C10_Witness ==
  /\ arg = PyStr("ab")
  /\ last = [op |-> "getitem", key |-> 3, res |-> Return(PyStr("ab"))]
  /\ maxRead = 5

\* the length of obj
CurLen == __len__(obj).res.val.val

\* C11 as stated: after unsynchronized concurrent reads, the length is at
\* most 1 + the largest index those reads read and at least the length the
\* instance had before they began.
C11_FinalLengthInRange ==
  (hist.started /\ AllIdle /\ hist.maxSince >= 0) =>
    /\ CurLen <= 1 + hist.maxSince
    /\ CurLen >= hist.lenBefore

\* C11 amended: after unsynchronized concurrent reads, the length is at most
\* the larger of the length before they began and 1 + the largest index they
\* read, and at least the length before they began.
C11_FinalLengthInRangeAmended ==
  (hist.started /\ AllIdle /\ hist.maxSince >= 0) =>
    /\ CurLen <= 1 + hist.maxSince \/ CurLen <= hist.lenBefore
    /\ CurLen >= hist.lenBefore

\* C11 witness: the instance had length 1, overlapping reads at 1 and 2 came
\* to an end and left length 2.
C11_Witness ==
  /\ hist = [started |-> TRUE, lenBefore |-> 1, maxSince |-> 2, overlap |-> TRUE]
  /\ AllIdle
  /\ CurLen = 2

\* C12: when no two reads overlapped, the length after the reads is 1 + the
\* largest index read; only overlapping reads can leave it smaller (the
\* witness is such a run).
C12_SequentialReadsExact ==
  (FromScalar /\ AllIdle /\ ~hist.overlap) => CurLen = 1 + maxRead

\* C12 witness: two overlapping reads at the distinct indices 2 and 1 came to
\* an end with length 2, less than 1 + 2.
C12_Witness ==
  /\ FromScalar /\ AllIdle /\ hist.overlap
  /\ maxRead = 2 /\ last.op = "getitem" /\ last.key = 1
  /\ obj.highest_index = 1
  /\ CurLen < 1 + maxRead

\* C13: a periodic sequence made by sequence(), materialized by iteration
\* into a list m, gives sequence(m) = m, a list and no _Sequence, and m holds
\* at every position i below the length what the iteration yields and what
\* the read at i returns.
C13_RoundTrip ==
  (FromMapping /\ last.op = "roundtrip") =>
    LET m == last.res.val
    IN /\ last.res.exc = "none"
       /\ m.type = "list"
       /\ m = PyList(ItemsOf(__iter__(obj)))
       /\ \A i \in 0..(CurLen - 1) :
            /\ i + 1 <= Len(m.items)
            /\ __getitem__(obj, i).res = Return(m.items[i + 1])

\* C13 witness: {len: 6, values: [0, 1, 2]} went round as [0, 0, 1, 1, 2, 2].
C13_Witness ==
  /\ arg = PyDict(6, PyList(<<PyInt(0), PyInt(1), PyInt(2)>>))
  /\ last.op = "roundtrip"
  /\ last.res = Return(PyList(<<PyInt(0), PyInt(0), PyInt(1), PyInt(1), PyInt(2), PyInt(2)>>))

\* the highest_index the object was built with
BuiltLen == IF arg.type = "dict" THEN arg.len ELSE arg.highest_index

\* C14: no call on a _Sequence, failing reads included, changes its default,
\* its periodic values or its period length; a periodic one does not change
\* at all and its length stays the one it was built with; highest_index of a
\* sequence with a default is the only attribute that changes.
C14_OnlyHighestIndexChanges ==
  [][/\ (IsLazy' /\ Truthy(obj'.periodic_values))
          => __len__(obj').res = Return(PyInt(BuiltLen))
     /\ IsLazy =>
          /\ [obj' EXCEPT !.highest_index = obj.highest_index] = obj
          /\ Truthy(obj.periodic_values) => obj' = obj]_vars

\* C14 witness: a read of {len: 9, ...} beyond its length failed.
C14_Witness ==
  /\ FromMapping /\ arg.len = 9
  /\ last.op = "getitem" /\ last.key = 10 /\ last.res = Raise("IndexError")

\* C15: every periodic _Sequence, made by sequence() or by the constructor,
\* has period_length * len(periodic_values) = highest_index.
C15_PeriodsTileLength ==
  (IsLazy /\ Truthy(obj.periodic_values)) =>
    obj.period_length.val * Len(obj.periodic_values.items) = obj.highest_index

\* C16: on a _Sequence made by sequence(), every index i below the length
\* reads the i-th element of the iteration, and that read changes neither the
\* length nor the iteration.
C16_ReadAgreesWithIterate ==
  (arg \in Inputs /\ IsLazy) =>
    \A i \in 0..(CurLen - 1) :
      LET call == __getitem__(obj, i)
      IN /\ i + 1 <= Len(ItemsOf(__iter__(obj)))
         /\ call.res = Return(ItemsOf(__iter__(obj))[i + 1])
         /\ __len__(call.self).res = __len__(obj).res
         /\ __iter__(call.self).res = __iter__(obj).res

\* C16 witness: index 1 of a sequence made from a scalar is read when its
\* length is 4.
C16_Witness ==
  FromScalar /\ last.op = "getitem" /\ last.key = 1 /\ CurLen = 4

\* C17: every periodic _Sequence sequence() returns has a length that is not
\* negative and is the number of elements its iteration yields.
C17_LengthIsIterationCount ==
  (FromMapping /\ IsLazy) =>
    /\ CurLen >= 0
    /\ CurLen = Len(ItemsOf(__iter__(obj)))

\* C18: sequence() of an object sequence() returned gives that very object:
\* no new object is made and the object is as it was, its observed length
\* included.
C18_NormalizeIdempotent ==
  [][(arg \in Inputs /\ last'.op = "sequence") =>
       /\ last'.res = Return(obj)
       /\ obj' = obj
       /\ nextId' = nextId]_vars

\* C18 witness: a sequence made from a scalar went through sequence() again
\* after index 5 was read, and is still the first object made.
C18_Witness ==
  /\ FromScalar /\ last.op = "sequence"
  /\ obj.type = "_Sequence" /\ obj.id = 1 /\ obj.highest_index = 5
  /\ nextId = 2

====
